---- MODULE Spec2Model ----
(***************************************************************************)
(* hashtext: a REST service that exchanges text for its SHA-256 hash and   *)
(* back, gated by a header token and a per-user credit (hashtext/*.go).    *)
(*                                                                         *)
(* Every HTTP request runs in its own goroutine (net/http); the only       *)
(* shared state is the database behind the global handle db, so one step   *)
(* of the model is one SQL statement together with the goroutine-local     *)
(* code that follows it up to the next statement or the response.          *)
(* A storage fault is any error of a statement other than sql.ErrNoRows.   *)
(***************************************************************************)
EXTENDS Integers, Sequences, FiniteSets, TLC

\* ---------------------------------------------------------------- bounds
\* Requests handled in one execution (each slot is one goroutine).
MaxRequests == 2
\* Largest credit a user holds when the service starts.
MaxCredit == 1
\* Storage faults the database may raise in one execution.
MaxFaults == 2

Slots == 1..MaxRequests

\* ---------------------------------------------------------------- values
\* Texts a client submits; the empty string is allowed by textHandler.
Texts == {"", "x"}

\* Names of the registered users (the fixtures' Jane and Petra).
Names == {"Jane", "Petra"}

\* sha256String: hex(SHA-256(s)), tabulated on the strings of the model.
sha256String(s) ==
    CASE s = ""      -> "e3b0c44298fc1c149afbf4c8996fb92427ae41e4649b934ca495991b7852b855"
      [] s = "x"     -> "2d711642b726b04401627ca9fbac32f5c8530fb1903cc4db02258717921a4881"
      [] s = "Jane"  -> "4f23798d92708359b734a18172c9c864f1d48044a754115a0d4b843bca3a5332"
      [] s = "Petra" -> "d2bfbb716eec9e29eda06f8a0f6b2b2a522f1eaab71f2228f33aad493ce2eebd"

\* user_id of the registered users: the SHA-256 token of the name.
UserIDs == {sha256String(n) : n \in Names}

NameOf(id) == CHOOSE n \in Names : sha256String(n) = id

\* The X-HashText-User-ID header of a request: absent (<<>>) or one value.
Headers == {<<>>, <<"">>, <<"foo">>} \cup {<<id>> : id \in UserIDs}

\* Request bodies of POST /text, by what ioutil.ReadAll and json.Unmarshal
\* make of them:
\*   unreadable   ReadAll returns an error
\*   invalid      bytes that do not decode into a textDocument
\*   object       {"text": <text>}
Bodies ==
    {[kind |-> "object", text |-> t] : t \in Texts}
    \cup {[kind |-> "invalid", text |-> ""], [kind |-> "unreadable", text |-> ""]}

NoBody == [kind |-> "none", text |-> ""]

\* Values of the {hash} path segment of GET /text/{hash}: mux does not
\* validate it.
Paths == {sha256String("x"), "does-not-exist"}

\* The requests of the three routes with the given headers, bodies and paths.
Requests(headers, bodies, paths) ==
    {[route |-> "userHandler", header |-> h, body |-> NoBody, path |-> ""] :
        h \in headers}
    \cup {[route |-> "textHandler", header |-> h, body |-> b, path |-> ""] :
        h \in headers, b \in bodies}
    \cup {[route |-> "textHashHandler", header |-> h, body |-> NoBody, path |-> x] :
        h \in headers, x \in paths}

\* The requests of the model: every body and path with a registered user's
\* token, and one request per route with each other header.
makeRouter ==
    Requests({<<id>> : id \in UserIDs}, Bodies, Paths)
    \cup Requests(Headers, {[kind |-> "object", text |-> "x"]}, {sha256String("x")})

NoRequest == [route |-> "none", header |-> <<>>, body |-> NoBody, path |-> ""]

\* ---------------------------------------------------------------- state
VARIABLES
    user,        \* table "user": user_id -> [name, credit]
    hash_text,   \* table hash_text: set of rows [hash, text]
    req,         \* slot -> the request it handles
    pc,          \* slot -> where its goroutine stands
    resp,        \* slot -> the response written (status, Content-Type, body)
    fault,       \* slot -> the statement of the request that met a storage fault
    wrote,       \* slot -> the tables the request has modified
    seen,        \* slot -> (hash, text) of the submissions answered 200 before it arrived
    credit0,     \* user_id -> credit when the service started
    faultsLeft,  \* storage faults the database may still raise
    lookups      \* slot -> queries the gate has sent to table "user" for the request

vars == <<user, hash_text, req, pc, resp, fault, wrote, seen, credit0, faultsLeft,
          lookups>>

\* The values the state takes.
TypeOK ==
    /\ user \in [UserIDs -> [name : Names, credit : Int]]
    /\ \A row \in hash_text : row.hash \in STRING /\ row.text \in Texts
    /\ req \in [Slots -> makeRouter \cup {NoRequest}]
    /\ pc \in [Slots -> {"idle", "userHandler", "textHandler", "insertText", "debit",
                         "textHashHandler", "done"}]
    /\ \A p \in Slots : resp[p].status \in {0, 200, 400, 401, 402, 404, 500}
    /\ fault \in [Slots -> {"none", "userIsAuthorized", "userHandler", "userHasCredit",
                            "insert", "debit", "textHashHandler"}]
    /\ wrote \in [Slots -> SUBSET {"user", "hash_text"}]
    /\ \A p \in Slots : \A a \in seen[p] : a[1] \in STRING /\ a[2] \in Texts
    /\ credit0 \in [UserIDs -> 0..MaxCredit]
    /\ faultsLeft \in 0..MaxFaults
    /\ lookups \in [Slots -> {0, 1}]

\* ---------------------------------------------------------------- responses
StatusOK == 200
StatusBadRequest == 400
StatusUnauthorized == 401
StatusPaymentRequired == 402
StatusNotFound == 404
StatusInternalServerError == 500

OutOfCredit == "You are out of credit. Please pay us more money."
BadJSON == "Could not decode the request body as JSON"

NoResponse == [status |-> 0, ctype |-> "", body |-> [kind |-> "empty"]]

\* w.WriteHeader(status) with nothing written after it.
WriteHeader(status) == [status |-> status, ctype |-> "", body |-> [kind |-> "empty"]]

\* sendErrorMessage: plain text message with the given status.
sendErrorMessage(msg, status) ==
    [status |-> status, ctype |-> "text/plain; charset=UTF-8",
     body |-> [kind |-> "text", msg |-> msg]]

\* sendJSONResponse: json.Marshal cannot fail on the three document types,
\* so the response is always 200 with the document. The struct tags of the
\* documents are not key:"value" pairs, so encoding/json uses the field names.
sendJSONResponse(data) ==
    [status |-> StatusOK, ctype |-> "application/json; charset=UTF-8",
     body |-> [kind |-> "json", doc |-> data]]

userDocument(userID, name, credit) == [UserID |-> userID, Name |-> name, Credit |-> credit]
textDocument(text) == [Text |-> text]
hashDocument(hash) == [Hash |-> hash]

\* ---------------------------------------------------------------- helpers
\* r.Header.Get("X-HashText-User-ID"): "" when the header is absent.
HeaderGet(r) == IF r.header = <<>> THEN "" ELSE r.header[1]

\* json.Unmarshal(body, &td): an error for bytes that do not decode into the
\* struct, which then keeps its zero value.
Unmarshal(body) ==
    IF body.kind = "object"
    THEN [err |-> FALSE, Text |-> body.text]
    ELSE [err |-> TRUE, Text |-> ""]

\* GREATEST(a, b) of PostgreSQL.
GREATEST(a, b) == IF a >= b THEN a ELSE b

\* The outcomes a statement can have now: a fault only while the database
\* may still raise one.
FaultChoices == IF faultsLeft > 0 THEN {FALSE, TRUE} ELSE {FALSE}

\* SELECT 1 FROM "user" WHERE user_id = $1 finds a row.
UserExists(userID) == userID \in DOMAIN user

GateQueries_Always(r) == 1

\* The queries userIsAuthorized sends for request r: it returns before the
\* query when the header value is empty, and sends one query otherwise.
GateQueries(r) == IF HeaderGet(r) = "" THEN 0 ELSE 1

\* userIsAuthorized: FALSE for an empty token without a query; otherwise the
\* query decides, and a storage fault is logged and answered FALSE.
userIsAuthorized(r, err) ==
    LET userID == HeaderGet(r) IN
    IF userID = "" THEN FALSE
    ELSE IF err THEN FALSE
    ELSE UserExists(userID)

userHasCredit_ZeroPasses(userID, err) ==
    IF err \/ ~UserExists(userID) THEN FALSE
    ELSE user[userID].credit >= 0

\* userHasCredit: any Scan error (no row, storage fault) is answered FALSE.
userHasCredit(userID, err) ==
    IF err \/ ~UserExists(userID) THEN FALSE
    ELSE user[userID].credit > 0

InsertHashText_Replace(tbl, hash, text) == {[hash |-> hash, text |-> text]}

\* INSERT INTO hash_text (hash, text) VALUES ($1, $2) ON CONFLICT DO NOTHING
\* with hash the primary key of the table (schema.sql).
InsertHashText(tbl, hash, text) ==
    IF \E row \in tbl : row.hash = hash THEN tbl
    ELSE tbl \cup {[hash |-> hash, text |-> text]}

SelectText_AnyRow(tbl, hash) == tbl

\* SELECT text FROM hash_text WHERE hash = $1: the rows found. No value of the
\* model ends in blanks, so the CHAR(64) comparison is plain equality.
SelectText(tbl, hash) == {row \in tbl : row.hash = hash}

DebitUser_Unclamped(tbl, userID) ==
    [u \in DOMAIN tbl |->
        IF u = userID THEN [tbl[u] EXCEPT !.credit = tbl[u].credit - 1] ELSE tbl[u]]

DebitUser_EveryRow(tbl, userID) ==
    [u \in DOMAIN tbl |-> [tbl[u] EXCEPT !.credit = GREATEST(0, tbl[u].credit - 1)]]

DebitUser_Least(tbl, userID) ==
    [u \in DOMAIN tbl |->
        IF u = userID
        THEN [tbl[u] EXCEPT !.credit = IF tbl[u].credit - 1 <= 0 THEN tbl[u].credit - 1 ELSE 0]
        ELSE tbl[u]]

\* UPDATE "user" SET credit = GREATEST(0, credit - 1) WHERE user_id = $1
DebitUser(tbl, userID) ==
    [u \in DOMAIN tbl |->
        IF u = userID
        THEN [tbl[u] EXCEPT !.credit = GREATEST(0, tbl[u].credit - 1)]
        ELSE tbl[u]]

\* The tables a step has modified.
Modified == (IF user' # user THEN {"user"} ELSE {})
            \cup (IF hash_text' # hash_text THEN {"hash_text"} ELSE {})

\* The submissions answered 200 so far, as (hash returned, text submitted).
Answered ==
    {<<resp[q].body.doc.Hash, Unmarshal(req[q].body).Text>> :
        q \in {s \in Slots : pc[s] = "done" /\ req[s].route = "textHandler"
                              /\ resp[s].status = StatusOK}}

\* ---------------------------------------------------------------- initial state
InitWith(faults) ==
    /\ \E c \in [UserIDs -> 0..MaxCredit] :
          /\ user = [id \in UserIDs |-> [name |-> NameOf(id), credit |-> c[id]]]
          /\ credit0 = c
    /\ hash_text = {}
    /\ req = [p \in Slots |-> NoRequest]
    /\ pc = [p \in Slots |-> "idle"]
    /\ resp = [p \in Slots |-> NoResponse]
    /\ fault = [p \in Slots |-> "none"]
    /\ wrote = [p \in Slots |-> {}]
    /\ seen = [p \in Slots |-> {}]
    /\ faultsLeft = faults
    /\ lookups = [p \in Slots |-> 0]

Init == InitWith(MaxFaults)

\* ---------------------------------------------------------------- steps
\* The step of slot p ends: its next position, its response, whether the
\* statement of this step (named stmt) met a storage fault.
Step(p, next, response, stmt, err) ==
    /\ pc' = [pc EXCEPT ![p] = next]
    /\ resp' = [resp EXCEPT ![p] = response]
    /\ fault' = [fault EXCEPT ![p] = IF err THEN stmt ELSE @]
    /\ faultsLeft' = IF err THEN faultsLeft - 1 ELSE faultsLeft
    /\ wrote' = [wrote EXCEPT ![p] = @ \cup Modified]
    /\ UNCHANGED <<req, seen, credit0, lookups>>

\* The server accepts a request, mux routes it to its wrapped handler and
\* wrapHandler runs the authorization gate in front of the handler. Slots are
\* taken in order: a slot is only a name for a goroutine.
wrapHandler(p) ==
    /\ pc[p] = "idle"
    /\ \A q \in Slots : q < p => pc[q] # "idle"
    /\ UNCHANGED <<user, hash_text, wrote, credit0>>
    /\ \E r \in makeRouter :
       \E err \in (IF GateQueries(r) = 0 THEN {FALSE} ELSE FaultChoices) :
          /\ req' = [req EXCEPT ![p] = r]
          /\ lookups' = [lookups EXCEPT ![p] = GateQueries(r)]
          /\ seen' = [seen EXCEPT ![p] = Answered]
          /\ fault' = [fault EXCEPT ![p] = IF err THEN "userIsAuthorized" ELSE @]
          /\ faultsLeft' = IF err THEN faultsLeft - 1 ELSE faultsLeft
          /\ IF ~userIsAuthorized(r, err)
             THEN /\ pc' = [pc EXCEPT ![p] = "done"]
                  /\ resp' = [resp EXCEPT ![p] = WriteHeader(StatusUnauthorized)]
             ELSE /\ pc' = [pc EXCEPT ![p] = r.route]
                  /\ UNCHANGED resp

\* userHandler: GET /user/me.
userHandler(p) ==
    /\ pc[p] = "userHandler"
    /\ UNCHANGED <<user, hash_text>>
    /\ LET userID == HeaderGet(req[p]) IN
       \E err \in FaultChoices :
          Step(p, "done",
               IF err THEN WriteHeader(StatusInternalServerError)
               ELSE IF ~UserExists(userID) THEN WriteHeader(StatusNotFound)
               ELSE sendJSONResponse(
                       userDocument(userID, user[userID].name, user[userID].credit)),
               "userHandler", err)

textHandlerReply_NoDecodeCheck(hasCredit, body) ==
    IF ~hasCredit THEN sendErrorMessage(OutOfCredit, StatusPaymentRequired)
    ELSE IF body.kind = "unreadable" THEN WriteHeader(StatusInternalServerError)
    ELSE NoResponse

\* textHandler up to the call of insertText: what it answers after the credit
\* check, reading the body and decoding it; NoResponse when it goes on.
textHandlerReply(hasCredit, body) ==
    IF ~hasCredit THEN sendErrorMessage(OutOfCredit, StatusPaymentRequired)
    ELSE IF body.kind = "unreadable" THEN WriteHeader(StatusInternalServerError)
    ELSE IF Unmarshal(body).err THEN sendErrorMessage(BadJSON, StatusBadRequest)
    ELSE NoResponse

\* textHandler, first statement: the credit lookup of userHasCredit.
textHandler(p) ==
    /\ pc[p] = "textHandler"
    /\ UNCHANGED <<user, hash_text>>
    /\ \E err \in FaultChoices :
          LET reply == textHandlerReply(userHasCredit(HeaderGet(req[p]), err), req[p].body)
          IN Step(p, IF reply = NoResponse THEN "insertText" ELSE "done", reply,
                  "userHasCredit", err)

insertText_DebitAfterFault(p) ==
    /\ pc[p] = "insertText"
    /\ UNCHANGED user
    /\ LET text == Unmarshal(req[p].body).Text
           hash == sha256String(text)
       IN
       \E err \in FaultChoices :
          /\ hash_text' = IF err THEN hash_text ELSE InsertHashText(hash_text, hash, text)
          /\ Step(p, "debit", NoResponse, "insert", err)

\* insertText, first statement: the insert. On a fault insertText logs and
\* returns, and textHandler sends the hash all the same.
insertText(p) ==
    /\ pc[p] = "insertText"
    /\ UNCHANGED user
    /\ LET text == Unmarshal(req[p].body).Text
           hash == sha256String(text)
       IN
       \E err \in FaultChoices :
          /\ hash_text' = IF err THEN hash_text ELSE InsertHashText(hash_text, hash, text)
          /\ IF err
             THEN Step(p, "done", sendJSONResponse(hashDocument(hash)), "insert", err)
             ELSE Step(p, "debit", NoResponse, "insert", err)

debit_FaultUndoesInsert(p) ==
    /\ pc[p] = "debit"
    /\ LET text == Unmarshal(req[p].body).Text
           hash == sha256String(text)
           userID == HeaderGet(req[p])
       IN
       \E err \in FaultChoices :
          /\ user' = IF err THEN user ELSE DebitUser(user, userID)
          /\ hash_text' = IF err THEN hash_text \ {[hash |-> hash, text |-> text]}
                          ELSE hash_text
          /\ Step(p, "done",
                  IF err THEN WriteHeader(StatusInternalServerError)
                  ELSE sendJSONResponse(hashDocument(hash)),
                  "debit", err)

\* insertText, second statement: the debit; then textHandler sends the hash.
debit(p) ==
    /\ pc[p] = "debit"
    /\ UNCHANGED hash_text
    /\ LET text == Unmarshal(req[p].body).Text
           hash == sha256String(text)
           userID == HeaderGet(req[p])
       IN
       \E err \in FaultChoices :
          /\ user' = IF err THEN user ELSE DebitUser(user, userID)
          /\ Step(p, "done", sendJSONResponse(hashDocument(hash)), "debit", err)

\* textHashHandler: GET /text/{hash}.
textHashHandler(p) ==
    /\ pc[p] = "textHashHandler"
    /\ UNCHANGED <<user, hash_text>>
    /\ LET rows == SelectText(hash_text, req[p].path) IN
       \E err \in FaultChoices :
          Step(p, "done",
               IF err THEN WriteHeader(StatusInternalServerError)
               ELSE IF rows = {} THEN WriteHeader(StatusNotFound)
               ELSE sendJSONResponse(textDocument((CHOOSE row \in rows : TRUE).text)),
               "textHashHandler", err)

Next ==
    \E p \in Slots :
        \/ wrapHandler(p)
        \/ userHandler(p)
        \/ textHandler(p)
        \/ insertText(p)
        \/ debit(p)
        \/ textHashHandler(p)

Spec == Init /\ [][Next]_vars

\* The same service on a database that raises no storage fault.
InitNoFault == InitWith(0)

SpecNoFault == InitNoFault /\ [][Next]_vars

\* ---------------------------------------------------------------- claims
Done(p) == pc[p] = "done"
Token(p) == HeaderGet(req[p])
IsPost(p) == req[p].route = "textHandler"
IsGetText(p) == req[p].route = "textHashHandler"
Unauthorized(p) == Done(p) /\ resp[p] = WriteHeader(StatusUnauthorized)

\* C1: on every route the gate answers 401 with an empty body, without
\* running the handler, exactly when the header is absent, empty or matches
\* no user id; a request answered 401 has modified no table.
C1_GateExactly ==
    \A p \in Slots :
        pc[p] # "idle" =>
            /\ Unauthorized(p) <=>
                   \/ req[p].header = <<>>
                   \/ req[p].header[1] = ""
                   \/ ~UserExists(req[p].header[1])
            /\ Unauthorized(p) => wrote[p] = {}

\* C2: for every user with no request in flight, the credit spent since the
\* start equals the number of the user's submissions answered 200.
C2_DebitPerSuccess ==
    \A u \in UserIDs :
        (\A p \in Slots : Token(p) = u => pc[p] \in {"idle", "done"}) =>
            credit0[u] - user[u].credit =
                Cardinality({p \in Slots : /\ Done(p) /\ IsPost(p) /\ Token(p) = u
                                            /\ resp[p].status = StatusOK})

\* C3: when textHandler starts for a user whose credit is 0 or less, the
\* request ends at once with 402 and the fixed message, whatever its body,
\* and has changed neither the content table nor any credit.
C3_NoCreditNoService ==
    [][\A p \in Slots :
          (pc[p] = "textHandler" /\ pc'[p] # pc[p] /\ user[Token(p)].credit <= 0) =>
              /\ pc'[p] = "done"
              /\ resp'[p] = sendErrorMessage(OutOfCredit, StatusPaymentRequired)
              /\ user' = user /\ hash_text' = hash_text
              /\ wrote'[p] = {}]_vars

\* A user without credit has sent a malformed body and got the 402 message.
C3_Witness ==
    \E p \in Slots :
        /\ Done(p) /\ IsPost(p) /\ fault[p] = "none"
        /\ req[p].body.kind = "invalid"
        /\ UserExists(Token(p)) /\ user[Token(p)].credit = 0
        /\ resp[p] = sendErrorMessage(OutOfCredit, StatusPaymentRequired)
        /\ wrote[p] = {}

Submitted(p) == Unmarshal(req[p].body).Text
Succeeded(p) == Done(p) /\ IsPost(p) /\ resp[p].status = StatusOK
RowsOf(hash) == {row \in hash_text : row.hash = hash}

\* C4: a submission of s answered 200 returns hex(SHA-256(s)), and every later
\* GET of that hash by an authorized user whose lookup meets no storage fault
\* is answered 200 with exactly s.
C4_RoundTrip ==
    /\ \A p \in Slots :
          Succeeded(p) => resp[p].body.doc.Hash = sha256String(Submitted(p))
    /\ \A q \in Slots :
          (Done(q) /\ IsGetText(q) /\ ~Unauthorized(q) /\ fault[q] = "none") =>
              \A a \in seen[q] :
                  a[1] = req[q].path => resp[q] = sendJSONResponse(textDocument(a[2]))

\* C5: the content table never holds two rows with one hash, and two
\* submissions of the same text that are both answered 200 return the same
\* hash and leave exactly one row for it.
C5_IdempotentStorage ==
    /\ \A r1, r2 \in hash_text : r1.hash = r2.hash => r1 = r2
    /\ \A p, q \in Slots :
          (p # q /\ Succeeded(p) /\ Succeeded(q) /\ Submitted(p) = Submitted(q)) =>
              /\ resp[p].body.doc.Hash = resp[q].body.doc.Hash
              /\ Cardinality(RowsOf(sha256String(Submitted(p)))) = 1

C7_CreditFloor ==
    /\ [](\A u \in UserIDs : user[u].credit >= 0)
    /\ [][\A u \in UserIDs :
             \/ user'[u].credit = user[u].credit
             \/ user'[u].credit = GREATEST(0, user[u].credit - 1)]_vars

\* Two submissions of a user who started with credit 1 have both been
\* debited: the second debit met credit 0 and left it there.
C7_Witness ==
    \E u \in UserIDs :
        /\ credit0[u] = 1 /\ user[u].credit = 0
        /\ \E p, q \in Slots :
              /\ p # q /\ Token(p) = u /\ Token(q) = u
              /\ Succeeded(p) /\ Succeeded(q)
              /\ fault[p] = "none" /\ fault[q] = "none"

\* C8: a request that met a storage fault anywhere but at the debit is
\* answered 500.
C8_FaultIsInternal ==
    \A p \in Slots :
        (Done(p) /\ fault[p] \notin {"none", "debit"}) =>
            resp[p].status = StatusInternalServerError

C10_Frame ==
    [][/\ DOMAIN user' = DOMAIN user
       /\ \A u \in UserIDs :
             /\ user'[u].name = user[u].name
             /\ user'[u].credit <= user[u].credit
             /\ user'[u] # user[u] =>
                   \E p \in Slots : /\ pc[p] = "debit" /\ pc'[p] = "done"
                                     /\ IsPost(p) /\ Token(p) = u
       /\ \A p \in Slots :
             (pc'[p] # pc[p] /\ req'[p].route \in {"userHandler", "textHashHandler"}) =>
                 (user' = user /\ hash_text' = hash_text)]_vars

\* One user has been debited while the other, who holds credit, has not, and
\* both GET routes have answered.
C10_Witness ==
    /\ \E u, v \in UserIDs :
          /\ user[u].credit < credit0[u]
          /\ credit0[v] > 0 /\ user[v].credit = credit0[v]
    /\ \E p \in Slots : Done(p) /\ IsGetText(p) /\ ~Unauthorized(p)

\* C11: the debit is reached only from an insert that met no fault, whether
\* the insert added a row or found one; after a faulted insert the request
\* ends without a debit and has not changed any credit.
C11_DebitAfterInsert ==
    [][\A p \in Slots :
          /\ (pc[p] = "insertText" /\ pc'[p] # pc[p]) =>
                IF fault'[p] = "insert"
                THEN /\ pc'[p] = "done"
                     /\ user' = user /\ hash_text' = hash_text
                     /\ "user" \notin wrote'[p]
                ELSE /\ pc'[p] = "debit"
                     /\ RowsOf(sha256String(Submitted(p)))' # {}
          /\ (pc'[p] = "debit" /\ pc[p] # "debit") =>
                (pc[p] = "insertText" /\ fault'[p] = "none")
          /\ (user' # user /\ pc'[p] # pc[p]) => pc[p] = "debit"]_vars

\* A debit is about to run for a submission whose insert found the row
\* already there.
C11_Witness ==
    \E p \in Slots :
        /\ pc[p] = "debit" /\ fault[p] = "none"
        /\ "hash_text" \notin wrote[p]
        /\ RowsOf(sha256String(Submitted(p))) # {}

\* C12: when the debit meets a storage fault, the request is still answered
\* 200 with the hash of its text, the row of that hash stays in the content
\* table, and the request has changed no credit.
C12_DebitFault ==
    [][\A p \in Slots :
          (pc[p] = "debit" /\ pc'[p] # pc[p] /\ fault'[p] = "debit") =>
              /\ pc'[p] = "done"
              /\ resp'[p] = sendJSONResponse(hashDocument(sha256String(Submitted(p))))
              /\ hash_text' = hash_text
              /\ [hash |-> sha256String(Submitted(p)), text |-> Submitted(p)] \in hash_text'
              /\ user' = user
              /\ "user" \notin wrote'[p]]_vars

\* A submission that added its row and whose debit faulted has been answered
\* 200, and its user still holds the credit of the start.
C12_Witness ==
    \E p \in Slots :
        /\ Succeeded(p) /\ fault[p] = "debit"
        /\ wrote[p] = {"hash_text"}
        /\ user[Token(p)].credit = credit0[Token(p)]
        /\ RowsOf(resp[p].body.doc.Hash) # {}

\* The requests whose debit statement has run without a fault on user u.
Debits(u) ==
    {p \in Slots : Succeeded(p) /\ Token(p) = u /\ fault[p] = "none"}

C14_ContentImmutable ==
    /\ [](\A row \in hash_text :
              /\ row.text \in Texts
              /\ row.hash = sha256String(row.text)
              /\ RowsOf(row.hash) = {row})
    /\ [][/\ hash_text \subseteq hash_text'
          /\ \A p \in Slots :
                (/\ pc[p] = "insertText" /\ pc'[p] # pc[p]
                 /\ RowsOf(sha256String(Submitted(p))) # {}) =>
                    hash_text' = hash_text]_vars

\* Two submissions of the same text have both been answered with its hash:
\* the first added the row, the second found it and wrote nothing.
C14_Witness ==
    \E p, q \in Slots :
        /\ p # q /\ Succeeded(p) /\ Succeeded(q)
        /\ Submitted(p) = Submitted(q)
        /\ fault[p] = "none" /\ fault[q] = "none"
        /\ "hash_text" \in wrote[p] /\ "hash_text" \notin wrote[q]
        /\ hash_text = {[hash |-> sha256String(Submitted(p)), text |-> Submitted(p)]}

\* The statement of C15 as the specification words it: the gate has sent
\* exactly one query for every request it has handled.
C15_OneLookupAlways ==
    \A p \in Slots : pc[p] # "idle" => lookups[p] = 1

\* C15: the gate sends no query for a request whose header is absent or empty
\* and answers it 401; for every other header value, unknown or valid, it
\* sends exactly one query, whatever the requests before it were; the
\* handlers behind the gate never repeat the gate's query.
C15_LookupUnlessEmpty ==
    /\ [](\A p \in Slots :
              pc[p] # "idle" =>
                 IF req[p].header \in {<<>>, <<"">>}
                 THEN lookups[p] = 0 /\ Unauthorized(p)
                 ELSE lookups[p] = 1)
    /\ [][\A p \in Slots : pc[p] # "idle" => lookups'[p] = lookups[p]]_vars

\* A request with an empty header value was refused without a query, and a
\* request of a known user after it was looked up and passed the gate.
C15_Witness ==
    \E p, q \in Slots :
        /\ p < q
        /\ req[p].header = <<"">> /\ Unauthorized(p) /\ lookups[p] = 0
        /\ UserExists(Token(q)) /\ pc[q] \notin {"idle", "done"} /\ lookups[q] = 1

\* C16: no overdraft: the submissions of a user answered 200 with a hash
\* never outnumber the credit the user started with.
C16_NoOverdraft ==
    \A u \in UserIDs :
        Cardinality({p \in Slots : Succeeded(p) /\ Token(p) = u}) <= credit0[u]

====
